---- MODULE Spec2Model ----
(***************************************************************************)
(* Model of the product mutation flows of the e-commerce inventory API:   *)
(* ProductsService (create, findOne, update, remove, uploadImage,         *)
(* deleteImage), ImageUploadService (uploadImage, deleteProductImages,    *)
(* validateFile) and CategoriesService (create, remove).                  *)
(*                                                                         *)
(* Every request is a call record with a program counter; one step of a   *)
(* call is the code between two awaits.  Under Spec requests are served   *)
(* one at a time: a new call starts only when no call is in flight.       *)
(***************************************************************************)
EXTENDS Integers, Sequences, FiniteSets, TLC

\* ---------------------------------------------------------------- bounds
MaxProducts == 2      \* product rows ever inserted
MaxBlobs == 2         \* objects ever accepted by the Blob Store
MaxCategories == 2    \* category rows ever inserted
MaxCalls == 3         \* product requests served

\* ------------------------------------------------------- program constants
MAX_FILE_SIZE == 5242880

ALLOWED_TYPES == {"image/jpeg", "image/png", "image/webp", "image/gif"}

\* ------------------------------------------------------------ input sets
Users == {"alice", "bob"}

\* category names in ascending (alphabetical) order
CatNames == <<"Audio", "Books">>

ProductIds == 1..MaxProducts

CategoryIds == 1..MaxCategories

\* a well-formed category id that no category row ever has
UnknownCategoryId == MaxCategories + 1

\* the price a product is created with, and the one an update sets
Prices == {100}

NewPrices == {200}

NoUrl == [kind |-> "none"]

Lit(text) == [kind |-> "lit", text |-> text]

\* the image URL a caller supplies on create
LiteralUrls == {Lit("http://img")}

\* the image URL an update sets: the empty string
NewUrls == {Lit("")}

NoFile == [present |-> FALSE, size |-> 0, mimetype |-> ""]

GoodFile == [present |-> TRUE, size |-> MAX_FILE_SIZE, mimetype |-> "image/png"]

BigFile == [present |-> TRUE, size |-> MAX_FILE_SIZE + 1, mimetype |-> "image/png"]

TextFile == [present |-> TRUE, size |-> 1, mimetype |-> "text/plain"]

Files == {GoodFile, BigFile, TextFile}

\* a string as its characters; NoText is null / undefined
NoText == [kind |-> "none"]

Text(chars) == [kind |-> "text", chars |-> chars]

\* the name and description a product is created with
Names == {Text(<<"A", "b">>)}

Descriptions == {NoText}

NoRow ==
  [id |-> 0, name |-> NoText, description |-> NoText, price |-> 0,
   categoryId |-> 0, userId |-> "", imageUrl |-> NoUrl]

\* CreateProductDto: categoryId, optional imageUrl, and the product data
CreateDtos ==
  { [name |-> n, description |-> d, categoryId |-> c, imageUrl |-> u, price |-> p] :
      n \in Names, d \in Descriptions,
      c \in CategoryIds \cup {UnknownCategoryId}, u \in {NoUrl} \cup LiteralUrls, p \in Prices }

\* UpdateProductDto: any subset of the create fields; a field that is absent
\* from the patch is absent from the function's domain
PatchOf(sel) ==
  [f \in {g \in DOMAIN sel : Len(sel[g]) > 0} |-> sel[f][1]]

Opt(S) == {<<>>} \cup {<<v>> : v \in S}

Patches ==
  { PatchOf([price |-> p, categoryId |-> c, imageUrl |-> u]) :
      p \in Opt(NewPrices), c \in Opt(CategoryIds), u \in Opt(NewUrls) }

VARIABLES
  categories,   \* Category table: id -> name
  catCount,     \* category ids handed out so far
  products,     \* Product table: id -> row
  created,      \* product ids handed out so far
  blobs,        \* Blob Store bucket: set of object keys
  uuids,        \* object names drawn so far
  calls,        \* requests: slot -> call record
  served        \* product requests taken up so far

vars == <<categories, catCount, products, created, blobs, uuids, calls, served>>

Slots == {1, 2}

\* ----------------------------------------------------------------- helpers
\* variant: imageUrl !== '', which lets null through
TruthyUrlNotEmpty(u) == ~(u.kind = "lit" /\ u.text = "")

\* JavaScript truthiness of a string | null | undefined image URL
TruthyUrl(u) == u.kind # "none" /\ ~(u.kind = "lit" /\ u.text = "")

BlobKey(productId, userId, n) == [pid |-> productId, uid |-> userId, n |-> n]

\* getPublicUrl(fileName)
PublicUrl(key) == [kind |-> "blob", key |-> key]

\* variant: everything the user has stored is listed
FolderOfUser(productId, userId) == {k \in blobs : k.uid = userId}

\* list(`${productId}/${userId}`)
Folder(productId, userId) == {k \in blobs : k.pid = productId /\ k.uid = userId}

\* the answer of findAll before there is one
NoListing ==
  [products |-> <<>>, total |-> 0, page |-> 0, limit |-> 0, totalPages |-> 0,
   message |-> ""]

Idle ==
  [op |-> "none", pc |-> "idle", userId |-> "", id |-> 0, dto |-> <<>>,
   file |-> NoFile, product |-> NoRow, uploadResult |-> NoUrl, files |-> {},
   caught |-> FALSE, status |-> "pending", message |-> "", result |-> NoRow,
   imageUrl |-> NoUrl, list |-> <<>>, listing |-> NoListing]

\* a request as it arrives: the handler's arguments, no local set yet
NewCall(op, userId, id, dto, file) ==
  [Idle EXCEPT !.op = op, !.pc = "start", !.userId = userId, !.id = id,
               !.dto = dto, !.file = file]

\* the handler is left: its arguments and locals are gone, the response stays
Leave(c, status, message) ==
  [c EXCEPT !.pc = "done", !.status = status, !.message = message,
            !.dto = <<>>, !.file = NoFile, !.product = NoRow,
            !.uploadResult = NoUrl, !.files = {}]

\* the call returns normally
Return(c, message) == Leave(c, "ok", message)

\* the call throws an HTTP exception
Throw(c, status, message) == Leave(c, status, message)

Goto(c, pc) == [c EXCEPT !.pc = pc]

\* no request is in flight
Quiet == \A s \in Slots : calls[s].pc = "idle"

Init ==
  /\ categories = <<>>
  /\ catCount = 0
  /\ products = <<>>
  /\ created = 0
  /\ blobs = {}
  /\ uuids = 0
  /\ calls = [s \in Slots |-> Idle]
  /\ served = 0

\* ------------------------------------------------------- table operations
Put(table, id, row) ==
  [i \in DOMAIN table \cup {id} |-> IF i = id THEN row ELSE table[i]]

Drop(table, id) == [i \in DOMAIN table \ {id} |-> table[i]]

\* the call in slot s moves on
SetCall(s, c) == calls' = [calls EXCEPT ![s] = c] /\ UNCHANGED served

\* a request is taken up in slot s
TakeUp(s, c) ==
  /\ calls[s].pc = "idle"
  /\ served < MaxCalls
  /\ served' = served + 1
  /\ calls' = [calls EXCEPT ![s] = c]

\* ------------------------------------------------------ CategoriesService
NameRank(name) == CHOOSE i \in 1..Len(CatNames) : CatNames[i] = name

\* variant: findMany without orderBy, rows in id order
RECURSIVE OrderById(_)
OrderById(ids) ==
  IF ids = {} THEN <<>>
  ELSE LET first == CHOOSE i \in ids : \A j \in ids : i <= j
       IN  <<[id |-> first, name |-> categories[first]]>> \o OrderById(ids \ {first})

\* category.findMany({ select: { id, name }, orderBy: { name: 'asc' } })
RECURSIVE OrderByName(_)
OrderByName(ids) ==
  IF ids = {} THEN <<>>
  ELSE LET first == CHOOSE i \in ids :
                      \A j \in ids : NameRank(categories[i]) <= NameRank(categories[j])
       IN  <<[id |-> first, name |-> categories[first]]>> \o OrderByName(ids \ {first})

\* availableCategories.map((cat) => `${cat.id}: ${cat.name}`), before join(', ')
CategoryList(available) == [i \in 1..Len(available) |-> <<available[i].id, available[i].name>>]

\* CategoriesService.create: unique name, fresh id
CategoryCreate(name) ==
  /\ Quiet
  /\ catCount < MaxCategories
  /\ \A i \in DOMAIN categories : categories[i] # name
  /\ categories' = Put(categories, catCount + 1, name)
  /\ catCount' = catCount + 1
  /\ UNCHANGED <<products, created, blobs, uuids, calls, served>>

\* ------------------------------------------------- ProductsService.create
MsgCreated == "Product created successfully"

MsgCreatedUploaded == "Product created successfully with image uploaded to Supabase Storage"

MsgCreatedUploadFailed == "Product created successfully, but image upload failed"

MsgNoCategories == "Category not found. No categories exist yet."

MsgAvailableCategories == "Category not found. Available categories:"

\* if (!category): list the categories for the error, else go on to insert
CreateAfterFindCategory(c, found) ==
  IF found THEN Goto(c, "insert") ELSE Goto(c, "listCategories")

\* the request arrives and runs up to category.findUnique({ where: { id: categoryId } })
StartCreate(s, userId, dto, file) ==
  /\ created < MaxProducts
  /\ TakeUp(s, CreateAfterFindCategory(NewCall("create", userId, 0, dto, file),
                                        dto.categoryId \in DOMAIN categories))
  /\ UNCHANGED <<categories, catCount, products, created, blobs, uuids>>

\* the NotFound thrown for a missing category, from the categories listed
CategoryNotFound(c, available) ==
  IF Len(available) = 0
  THEN Throw(c, "NotFound", MsgNoCategories)
  ELSE [Throw(c, "NotFound", MsgAvailableCategories)
          EXCEPT !.list = CategoryList(available)]

CreateListCategories(s) ==
  LET c == calls[s] IN
  /\ c.op = "create" /\ c.pc = "listCategories"
  /\ SetCall(s, CategoryNotFound(c, OrderByName(DOMAIN categories)))
  /\ UNCHANGED <<categories, catCount, products, created, blobs, uuids>>

\* variant: the row is built from the request body alone, without the requester
NewRowFromBody(id, dto, userId) ==
  [id |-> id, name |-> dto.name, description |-> dto.description,
   price |-> dto.price, categoryId |-> dto.categoryId,
   userId |-> "", imageUrl |-> dto.imageUrl]

\* the row written by product.create({ data: { ...productData, categoryId, userId, imageUrl } })
NewRow(id, dto, userId) ==
  [id |-> id, name |-> dto.name, description |-> dto.description,
   price |-> dto.price, categoryId |-> dto.categoryId,
   userId |-> userId, imageUrl |-> dto.imageUrl]

CreateInsert(s) ==
  LET c == calls[s]
      row == NewRow(created + 1, c.dto, c.userId)
  IN
  /\ c.op = "create" /\ c.pc = "insert"
  /\ created < MaxProducts
  /\ IF c.dto.categoryId \in DOMAIN categories
     THEN /\ products' = Put(products, row.id, row)
          /\ created' = created + 1
          /\ SetCall(s, IF c.file.present
                         THEN [Goto(c, "upload") EXCEPT !.product = row, !.imageUrl = c.dto.imageUrl]
                         ELSE [Return(c, MsgCreated) EXCEPT !.result = row,
                                                            !.imageUrl = c.dto.imageUrl])
     ELSE \* foreign key violation: the category went away since the lookup
          /\ SetCall(s, Throw(c, "Error", "Foreign key constraint failed"))
          /\ UNCHANGED <<products, created>>
  /\ UNCHANGED <<categories, catCount, blobs, uuids>>

\* ------------------------------------------------------ ImageUploadService
\* variant: the size of the file is not looked at
ValidateFileAnySize(file) ==
  IF ~file.present THEN "No file provided"
  ELSE IF file.mimetype \notin ALLOWED_TYPES THEN "Invalid file type"
  ELSE "ok"

\* validateFile: the BadRequest it throws, or "ok"
ValidateFile(file) ==
  IF ~file.present THEN "No file provided"
  ELSE IF file.size > MAX_FILE_SIZE THEN "File size too large"
  ELSE IF file.mimetype \notin ALLOWED_TYPES THEN "Invalid file type"
  ELSE "ok"

\* outcomes of one Blob Store request: TRUE = served, FALSE = error.  Once
\* MaxBlobs objects were accepted the store only answers uploads with errors.
UploadOutcomes == IF uuids < MaxBlobs THEN BOOLEAN ELSE {FALSE}

\* `${productId}/${userId}/${randomUUID()}.${fileExtension}`
NextKey(productId, userId) == BlobKey(productId, userId, uuids + 1)

\* uploadImage resolves (the object is stored) iff the file is valid and the
\* store accepts it; otherwise it throws BadRequest and stores nothing
UploadAccepted(file, storeOk) == ValidateFile(file) = "ok" /\ storeOk

\* ---------------------------------------- ProductsService.create, image part
\* variant: the upload error is not caught and fails the create
CreateCatchRethrow(c) == Throw(c, "BadRequest", "Image upload failed")

\* catch (error) { console.warn(...); message = '... but image upload failed' }
CreateCatch(c) ==
  [Return(c, MsgCreatedUploadFailed) EXCEPT !.caught = TRUE, !.result = c.product]

\* variant: the upload and the row update are one transaction
CreateUploadAndAttach(s) ==
  LET c == calls[s]
      key == NextKey(c.product.id, c.userId)
  IN
  /\ c.op = "create" /\ c.pc = "upload"
  /\ \E storeOk \in UploadOutcomes :
       IF UploadAccepted(c.file, storeOk)
       THEN /\ blobs' = blobs \cup {key}
            /\ uuids' = uuids + 1
            /\ products' = Put(products, c.product.id,
                               [products[c.product.id] EXCEPT !.imageUrl = PublicUrl(key)])
            /\ SetCall(s, [Goto(c, "attach") EXCEPT !.uploadResult = PublicUrl(key)])
       ELSE /\ SetCall(s, CreateCatch(c))
            /\ UNCHANGED <<blobs, uuids, products>>
  /\ UNCHANGED <<categories, catCount, created>>

\* imageUploadService.uploadImage(file, product.id, userId) inside the try
CreateUpload(s) ==
  LET c == calls[s]
      key == NextKey(c.product.id, c.userId)
  IN
  /\ c.op = "create" /\ c.pc = "upload"
  /\ \E storeOk \in UploadOutcomes :
       IF UploadAccepted(c.file, storeOk)
       THEN /\ blobs' = blobs \cup {key}
            /\ uuids' = uuids + 1
            /\ SetCall(s, [Goto(c, "attach") EXCEPT !.uploadResult = PublicUrl(key)])
       ELSE /\ SetCall(s, CreateCatch(c))
            /\ UNCHANGED <<blobs, uuids>>
  /\ UNCHANGED <<categories, catCount, products, created>>

\* variant: an image URL already on the row is kept
WithImageKeepExisting(row, imageUrl) ==
  IF row.imageUrl = NoUrl \/ imageUrl = NoUrl THEN [row EXCEPT !.imageUrl = imageUrl] ELSE row

\* the row after product.update({ where: { id }, data: { imageUrl } })
WithImage(row, imageUrl) == [row EXCEPT !.imageUrl = imageUrl]

\* product.update({ where: { id: product.id }, data: { imageUrl: uploadResult.imageUrl } })
CreateAttach(s) ==
  LET c == calls[s]
      id == c.product.id
  IN
  /\ c.op = "create" /\ c.pc = "attach"
  /\ IF id \in DOMAIN products
     THEN LET updatedProduct == WithImage(products[id], c.uploadResult) IN
          /\ products' = Put(products, id, updatedProduct)
          /\ SetCall(s, [Return(c, MsgCreatedUploaded)
                           EXCEPT !.result = updatedProduct, !.imageUrl = c.uploadResult])
     ELSE \* record to update not found: thrown inside the try
          /\ SetCall(s, CreateCatch(c))
          /\ UNCHANGED products
  /\ UNCHANGED <<categories, catCount, created, blobs, uuids>>

\* ------------------------------------------------ ProductsService.findOne
\* variant: the ownership check is missing
IsOwnerUnchecked(product, userId) == TRUE

\* product.userId !== userId
IsOwner(product, userId) == product.userId = userId

\* product.findUnique({ where: { id } }); NoRow when there is none
Lookup(id) == IF id \in DOMAIN products THEN products[id] ELSE NoRow

\* variant: a missing row is answered with an empty success
ProductNotFoundAsEmpty(c) == Return(c, "")

\* if (!product) throw new NotFoundException(`Product with ID ${id} not found`)
ProductNotFound(c) == Throw(c, "NotFound", "Product not found")

FindOneAfterLookup(c, product) ==
  IF product = NoRow THEN ProductNotFound(c)
  ELSE [Return(c, "") EXCEPT !.result = product]

\* the request arrives and runs product.findUnique
FindOne(s, id) ==
  /\ TakeUp(s, FindOneAfterLookup(NewCall("findOne", "", id, <<>>, NoFile), Lookup(id)))
  /\ UNCHANGED <<categories, catCount, products, created, blobs, uuids>>

\* ------------------------------------------------- ProductsService.update
\* variant: the category of an update is never verified
SuppliesCategoryNever(dto) == FALSE

\* if (updateProductDto.categoryId)
SuppliesCategory(dto) == "categoryId" \in DOMAIN dto /\ dto.categoryId # 0

\* findOne, the ownership check, and the choice to verify the category
UpdateAfterFindOne(c, product) ==
  IF product = NoRow THEN ProductNotFound(c)
  ELSE IF ~IsOwner(product, c.userId)
       THEN Throw(c, "Forbidden", "You can only update your own products")
  ELSE IF SuppliesCategory(c.dto) THEN [Goto(c, "checkCategory") EXCEPT !.product = product]
  ELSE [Goto(c, "write") EXCEPT !.product = product]

\* the request arrives and runs up to the end of findOne
StartUpdate(s, userId, id, dto) ==
  /\ TakeUp(s, UpdateAfterFindOne(NewCall("update", userId, id, dto, NoFile), Lookup(id)))
  /\ UNCHANGED <<categories, catCount, products, created, blobs, uuids>>

\* category.findUnique({ where: { id: updateProductDto.categoryId } })
UpdateAfterCategory(c, found) ==
  IF found THEN Goto(c, "write")
  ELSE Throw(c, "NotFound", "Category not found")

UpdateCheckCategory(s) ==
  LET c == calls[s] IN
  /\ c.op = "update" /\ c.pc = "checkCategory"
  /\ SetCall(s, UpdateAfterCategory(c, c.dto.categoryId \in DOMAIN categories))
  /\ UNCHANGED <<categories, catCount, products, created, blobs, uuids>>

\* variant: the row is replaced by the data, absent fields reset
ApplyPatchReplace(row, data) ==
  [f \in DOMAIN row |-> IF f \in DOMAIN data THEN data[f]
                        ELSE IF f = "id" THEN row[f] ELSE NoRow[f]]

\* variant: an image URL the data does not supply is cleared
ApplyPatchClearUrl(row, data) ==
  [f \in DOMAIN row |-> IF f \in DOMAIN data THEN data[f]
                        ELSE IF f = "imageUrl" THEN NoUrl ELSE row[f]]

\* product.update({ where: { id }, data }): fields absent from data keep their value
ApplyPatch(row, data) ==
  [f \in DOMAIN row |-> IF f \in DOMAIN data THEN data[f] ELSE row[f]]

\* variant: an optimistic check refuses the write when the row has changed
\* since findOne read it
UpdateWriteVersionChecked(s) ==
  LET c == calls[s] IN
  /\ c.op = "update" /\ c.pc = "write"
  /\ IF c.id \notin DOMAIN products \/ products[c.id] # c.product
     THEN /\ SetCall(s, Throw(c, "Conflict", "Product was modified"))
          /\ UNCHANGED products
     ELSE LET row == ApplyPatch(products[c.id], c.dto) IN
          /\ products' = Put(products, c.id, row)
          /\ SetCall(s, [Return(c, "") EXCEPT !.result = row])
  /\ UNCHANGED <<categories, catCount, created, blobs, uuids>>

UpdateWrite(s) ==
  LET c == calls[s] IN
  /\ c.op = "update" /\ c.pc = "write"
  /\ IF c.id \notin DOMAIN products
     THEN /\ SetCall(s, Throw(c, "Error", "Record to update not found"))
          /\ UNCHANGED products
     ELSE LET row == ApplyPatch(products[c.id], c.dto) IN
          IF row.categoryId \notin DOMAIN categories
          THEN /\ SetCall(s, Throw(c, "Error", "Foreign key constraint failed"))
               /\ UNCHANGED products
          ELSE /\ products' = Put(products, c.id, row)
               /\ SetCall(s, [Return(c, "") EXCEPT !.result = row])
  /\ UNCHANGED <<categories, catCount, created, blobs, uuids>>

\* ---------------------------------- ImageUploadService.deleteProductImages
\* where the caller goes on once deleteProductImages has resolved
AfterImagesDeleted(c) ==
  IF c.op = "remove" THEN Goto(c, "delete") ELSE Goto(c, "clear")

\* variant: remove has no try/catch around deleteProductImages
ImagesDeleteFailedThrown(c) == Throw(c, "BadRequest", "Product images deletion failed")

\* variant: deleteImage swallows the error as remove does
ImagesDeleteFailedSwallowed(c) ==
  [Goto(c, IF c.op = "remove" THEN "delete" ELSE "clear") EXCEPT !.caught = TRUE]

\* deleteProductImages threw BadRequest: remove catches and logs it,
\* deleteImage lets it propagate
ImagesDeleteFailed(c) ==
  IF c.op = "remove" THEN [Goto(c, "delete") EXCEPT !.caught = TRUE]
  ELSE Throw(c, "BadRequest", "Product images deletion failed")

\* storage.list(`${productId}/${userId}`)
DeleteProductImagesList(s) ==
  LET c == calls[s] IN
  /\ c.op \in {"remove", "deleteImage"} /\ c.pc = "list"
  /\ \E listOk \in BOOLEAN :
       LET files == Folder(c.id, c.userId) IN
       SetCall(s, IF ~listOk THEN ImagesDeleteFailed(c)
                  ELSE IF files = {} THEN AfterImagesDeleted(c)
                  ELSE [Goto(c, "removeBlobs") EXCEPT !.files = files])
  /\ UNCHANGED <<categories, catCount, products, created, blobs, uuids>>

\* storage.remove(filePaths)
DeleteProductImagesRemove(s) ==
  LET c == calls[s] IN
  /\ c.op \in {"remove", "deleteImage"} /\ c.pc = "removeBlobs"
  /\ \E removeOk \in BOOLEAN :
       IF removeOk
       THEN /\ blobs' = blobs \ c.files
            /\ SetCall(s, AfterImagesDeleted(c))
       ELSE /\ SetCall(s, ImagesDeleteFailed(c))
            /\ UNCHANGED blobs
  /\ UNCHANGED <<categories, catCount, products, created, uuids>>

\* ------------------------------------------------- ProductsService.remove
RemoveAfterFindOne(c, product) ==
  IF product = NoRow THEN ProductNotFound(c)
  ELSE IF ~IsOwner(product, c.userId)
       THEN Throw(c, "Forbidden", "You can only delete your own products")
  ELSE IF TruthyUrl(product.imageUrl) THEN [Goto(c, "list") EXCEPT !.product = product]
  ELSE [Goto(c, "delete") EXCEPT !.product = product]

\* the request arrives and runs up to the end of findOne
StartRemove(s, userId, id) ==
  /\ TakeUp(s, RemoveAfterFindOne(NewCall("remove", userId, id, <<>>, NoFile), Lookup(id)))
  /\ UNCHANGED <<categories, catCount, products, created, blobs, uuids>>

\* product.delete({ where: { id } })
RemoveDelete(s) ==
  LET c == calls[s] IN
  /\ c.op = "remove" /\ c.pc = "delete"
  /\ IF c.id \in DOMAIN products
     THEN /\ products' = Drop(products, c.id)
          /\ SetCall(s, Return(c, ""))
     ELSE /\ SetCall(s, Throw(c, "Error", "Record to delete does not exist"))
          /\ UNCHANGED products
  /\ UNCHANGED <<categories, catCount, created, blobs, uuids>>

\* -------------------------------------------- ProductsService.uploadImage
MsgImageUploaded == "Image uploaded successfully to Supabase Storage"

UploadImageAfterFindOne(c, product) ==
  IF product = NoRow THEN ProductNotFound(c)
  ELSE IF ~IsOwner(product, c.userId)
       THEN Throw(c, "Forbidden", "You can only upload images to your own products")
  ELSE [Goto(c, "upload") EXCEPT !.product = product]

\* the request arrives and runs up to the end of findOne
StartUploadImage(s, userId, id, file) ==
  /\ TakeUp(s, UploadImageAfterFindOne(NewCall("uploadImage", userId, id, <<>>, file), Lookup(id)))
  /\ UNCHANGED <<categories, catCount, products, created, blobs, uuids>>

\* variant: the upload error is swallowed as in create
UploadImageFailedSwallowed(c) == Return(c, "Image upload failed")

\* the upload threw: nothing catches it in uploadImage.  validateFile throws
\* its own message ahead of the try; an error of the store is rethrown as
\* 'Image upload failed: ...'
UploadImageFailed(c) ==
  Throw(c, "BadRequest",
        IF ValidateFile(c.file) = "ok" THEN "Image upload failed" ELSE ValidateFile(c.file))

\* imageUploadService.uploadImage(file, productId, userId)
UploadImageUpload(s) ==
  LET c == calls[s]
      key == NextKey(c.id, c.userId)
  IN
  /\ c.op = "uploadImage" /\ c.pc = "upload"
  /\ \E storeOk \in UploadOutcomes :
       IF UploadAccepted(c.file, storeOk)
       THEN /\ blobs' = blobs \cup {key}
            /\ uuids' = uuids + 1
            /\ SetCall(s, [Goto(c, "attach") EXCEPT !.uploadResult = PublicUrl(key)])
       ELSE /\ SetCall(s, UploadImageFailed(c))
            /\ UNCHANGED <<blobs, uuids>>
  /\ UNCHANGED <<categories, catCount, products, created>>

\* product.update({ where: { id: productId }, data: { imageUrl } })
UploadImageAttach(s) ==
  LET c == calls[s] IN
  /\ c.op = "uploadImage" /\ c.pc = "attach"
  /\ IF c.id \in DOMAIN products
     THEN LET updatedProduct == WithImage(products[c.id], c.uploadResult) IN
          /\ products' = Put(products, c.id, updatedProduct)
          /\ SetCall(s, [Return(c, MsgImageUploaded)
                           EXCEPT !.result = updatedProduct, !.imageUrl = c.uploadResult])
     ELSE /\ SetCall(s, Throw(c, "Error", "Record to update not found"))
          /\ UNCHANGED products
  /\ UNCHANGED <<categories, catCount, created, blobs, uuids>>

\* -------------------------------------------- ProductsService.deleteImage
DeleteImageAfterFindOne(c, product) ==
  IF product = NoRow THEN ProductNotFound(c)
  ELSE IF ~IsOwner(product, c.userId)
       THEN Throw(c, "Forbidden", "You can only delete images from your own products")
  ELSE IF ~TruthyUrl(product.imageUrl)
       THEN Throw(c, "BadRequest", "Product has no image to delete")
  ELSE [Goto(c, "list") EXCEPT !.product = product]

\* the request arrives and runs up to the end of findOne
StartDeleteImage(s, userId, id) ==
  /\ TakeUp(s, DeleteImageAfterFindOne(NewCall("deleteImage", userId, id, <<>>, NoFile), Lookup(id)))
  /\ UNCHANGED <<categories, catCount, products, created, blobs, uuids>>

\* product.update({ where: { id: productId }, data: { imageUrl: null } })
DeleteImageClear(s) ==
  LET c == calls[s] IN
  /\ c.op = "deleteImage" /\ c.pc = "clear"
  /\ IF c.id \in DOMAIN products
     THEN /\ products' = Put(products, c.id, WithImage(products[c.id], NoUrl))
          /\ SetCall(s, Return(c, "Image deleted successfully"))
     ELSE /\ SetCall(s, Throw(c, "Error", "Record to update not found"))
          /\ UNCHANGED products
  /\ UNCHANGED <<categories, catCount, created, blobs, uuids>>

\* ----------------------------------------------- CategoriesService.remove
\* variant: the products of the category are not counted
ProductCountUnchecked(id) == 0

\* product.count({ where: { categoryId: id } })
ProductCount(id) == Cardinality({p \in DOMAIN products : products[p].categoryId = id})

\* the answer of remove: NotFound from findOne, BadRequest while products
\* reference the category, otherwise the category is deleted
CategoryRemoveAnswer(c) ==
  IF c.id \notin DOMAIN categories THEN Throw(c, "NotFound", "Category not found")
  ELSE IF ProductCount(c.id) > 0
       THEN Throw(c, "BadRequest", "Cannot delete category that has products")
  ELSE Return(c, "")

\* findOne, product.count, category.delete; served while no product request
\* is in flight
CategoryRemove(id) ==
  LET c == CategoryRemoveAnswer(NewCall("categoryRemove", "", id, <<>>, NoFile)) IN
  /\ Quiet
  /\ calls' = [calls EXCEPT ![1] = c]
  /\ categories' = IF c.status = "ok" THEN Drop(categories, id) ELSE categories
  /\ UNCHANGED <<catCount, products, created, blobs, uuids, served>>

\* ------------------------------------------------------- ProductQueryDto
\* @Min(1) page, @Min(1) @Max(100) limit, @Min(0) minPrice and maxPrice
PageMin == 1

LimitMin == 1

LimitMax == 100

PriceMin == 0

\* const { page = 1, limit = 10 } = query
DefaultPage == 1

DefaultLimit == 10

QueryPages == {0, 1, 2}

QueryLimits == {0, 1, 2, LimitMax, LimitMax + 1}

QueryPrices == Prices \cup NewPrices

\* the empty string, a blank, and terms in lower and in upper case
SearchTerms == {Text(<<>>), Text(<<" ">>), Text(<<"a">>), Text(<<"B">>)}

\* the query string of GET /api/products: every parameter is optional
Queries ==
  { PatchOf([categoryId |-> c, minPrice |-> a, maxPrice |-> b,
             search |-> t, page |-> p, limit |-> l]) :
      c \in Opt(CategoryIds), a \in Opt(QueryPrices), b \in Opt(QueryPrices),
      t \in Opt(SearchTerms), p \in Opt(QueryPages), l \in Opt(QueryLimits) }

\* variant: page without @Min(1)
ValidateQueryAnyPage(q) ==
  /\ "minPrice" \in DOMAIN q => q.minPrice >= PriceMin
  /\ "maxPrice" \in DOMAIN q => q.maxPrice >= PriceMin
  /\ "limit" \in DOMAIN q => q.limit >= LimitMin /\ q.limit <= LimitMax

\* variant: limit without @Max(100)
ValidateQueryNoMax(q) ==
  /\ "minPrice" \in DOMAIN q => q.minPrice >= PriceMin
  /\ "maxPrice" \in DOMAIN q => q.maxPrice >= PriceMin
  /\ "page" \in DOMAIN q => q.page >= PageMin
  /\ "limit" \in DOMAIN q => q.limit >= LimitMin

\* the global ValidationPipe applied to ProductQueryDto
ValidateQuery(q) ==
  /\ "minPrice" \in DOMAIN q => q.minPrice >= PriceMin
  /\ "maxPrice" \in DOMAIN q => q.maxPrice >= PriceMin
  /\ "page" \in DOMAIN q => q.page >= PageMin
  /\ "limit" \in DOMAIN q => q.limit >= LimitMin /\ q.limit <= LimitMax

\* ------------------------------------------------ ProductsService.findAll
PageOf(q) == IF "page" \in DOMAIN q THEN q.page ELSE DefaultPage

LimitOf(q) == IF "limit" \in DOMAIN q THEN q.limit ELSE DefaultLimit

\* variant: the offset of the page after the one asked for
SkipPageTimesLimit(q) == PageOf(q) * LimitOf(q)

\* const skip = (page - 1) * limit
Skip(q) == (PageOf(q) - 1) * LimitOf(q)

\* if (categoryId) where.categoryId = categoryId
CategoryMatches(row, q) ==
  ("categoryId" \in DOMAIN q /\ q.categoryId # 0) => row.categoryId = q.categoryId

\* variant: gt and lt in place of gte and lte
PriceMatchesExclusive(row, q) ==
  /\ "minPrice" \in DOMAIN q => row.price > q.minPrice
  /\ "maxPrice" \in DOMAIN q => row.price < q.maxPrice

\* where.price = { gte: minPrice, lte: maxPrice }, each when !== undefined
PriceMatches(row, q) ==
  /\ "minPrice" \in DOMAIN q => row.price >= q.minPrice
  /\ "maxPrice" \in DOMAIN q => row.price <= q.maxPrice

\* case folding over the letters in use
Lower(ch) == IF ch = "A" THEN "a" ELSE IF ch = "B" THEN "b" ELSE ch

LowerCase(chars) == [i \in 1..Len(chars) |-> Lower(chars[i])]

\* chars has term as a substring
Contains(chars, term) ==
  \E i \in 0..(Len(chars) - Len(term)) : SubSeq(chars, i + 1, i + Len(term)) = term

\* { contains: search, mode: 'insensitive' }; a null column matches nothing
ContainsInsensitive(text, term) ==
  text.kind = "text" /\ Contains(LowerCase(text.chars), LowerCase(term.chars))

\* if (search) where.OR = [{ name: contains }, { description: contains }]
TextMatches(row, q) ==
  ("search" \in DOMAIN q /\ q.search.chars # <<>>)
    => \/ ContainsInsensitive(row.name, q.search)
       \/ ContainsInsensitive(row.description, q.search)

\* the ids of the rows the where clause selects
Where(q) ==
  {id \in DOMAIN products : /\ CategoryMatches(products[id], q)
                            /\ PriceMatches(products[id], q)
                            /\ TextMatches(products[id], q)}

\* orderBy: { createdAt: 'desc' }; rows are numbered in creation order
RECURSIVE OrderByCreatedAtDesc(_)
OrderByCreatedAtDesc(ids) ==
  IF ids = {} THEN <<>>
  ELSE LET last == CHOOSE i \in ids : \A j \in ids : j <= i
       IN  <<products[last]>> \o OrderByCreatedAtDesc(ids \ {last})

\* skip, take: limit
SkipTake(rows, skip, take) ==
  IF skip >= Len(rows) THEN <<>>
  ELSE SubSeq(rows, skip + 1, IF skip + take < Len(rows) THEN skip + take ELSE Len(rows))

\* variant: the quotient is rounded down
MathFloor(total, limit) == total \div limit

\* Math.ceil(total / limit), for a limit of at least 1
MathCeil(total, limit) ==
  IF total % limit = 0 THEN total \div limit ELSE (total \div limit) + 1

\* Promise.all([findMany, count]) and the object returned
FindAllResult(q) ==
  LET found == SkipTake(OrderByCreatedAtDesc(Where(q)), Skip(q), LimitOf(q))
      total == Cardinality(Where(q))
  IN  [products |-> found, total |-> total, page |-> PageOf(q), limit |-> LimitOf(q),
       totalPages |-> MathCeil(total, LimitOf(q)),
       message |-> IF Len(found) = 0 THEN "No products found" ELSE ""]

\* the query is rejected by validation, or answered by the service
FindAllAnswer(c) ==
  IF ~ValidateQuery(c.dto)
  THEN [c EXCEPT !.pc = "done", !.status = "BadRequest", !.message = "Validation failed"]
  ELSE IF Skip(c.dto) < 0
       THEN \* findMany refuses a negative skip
            [c EXCEPT !.pc = "done", !.status = "Error", !.message = "Invalid value for skip"]
  ELSE [c EXCEPT !.pc = "done", !.status = "ok", !.listing = FindAllResult(c.dto)]

\* GET /api/products: a read, which takes nothing from the request budget
FindAll(s, q) ==
  /\ calls[s].pc = "idle"
  /\ calls' = [calls EXCEPT ![s] = FindAllAnswer(NewCall("findAll", "", 0, q, NoFile))]
  /\ UNCHANGED <<categories, catCount, products, created, blobs, uuids, served>>

\* ------------------------------------------------- ProductsService.search
\* variant: only the name is searched
SearchWhereNameOnly(term) ==
  {id \in DOMAIN products : ContainsInsensitive(products[id].name, term)}

\* where: { OR: [{ name: contains }, { description: contains }] }, whatever
\* the term is
SearchWhere(term) ==
  {id \in DOMAIN products : \/ ContainsInsensitive(products[id].name, term)
                            \/ ContainsInsensitive(products[id].description, term)}

\* findMany({ where, orderBy: { createdAt: 'desc' } }) and the object returned
SearchResult(term) ==
  LET found == OrderByCreatedAtDesc(SearchWhere(term)) IN
  [NoListing EXCEPT !.products = found,
                    !.message = IF Len(found) = 0
                                THEN "No products found matching your search" ELSE ""]

\* GET /api/products/search?query=term: a read, like findAll
Search(s, term) ==
  /\ calls[s].pc = "idle"
  /\ calls' = [calls EXCEPT ![s] =
                 [NewCall("search", "", 0, [query |-> term], NoFile)
                    EXCEPT !.pc = "done", !.status = "ok", !.listing = SearchResult(term)]]
  /\ UNCHANGED <<categories, catCount, products, created, blobs, uuids, served>>

\* ------------------------------------------------------------ the system
\* a request arrives; the server takes it up in slot s
Start(s) ==
  \/ \E u \in Users, dto \in CreateDtos, file \in Files \cup {NoFile} :
       StartCreate(s, u, dto, file)
  \/ \E id \in ProductIds : FindOne(s, id)
  \/ \E u \in Users, id \in ProductIds, dto \in Patches : StartUpdate(s, u, id, dto)
  \/ \E u \in Users, id \in ProductIds : StartRemove(s, u, id)
  \/ \E u \in Users, id \in ProductIds, file \in Files \cup {NoFile} :
       StartUploadImage(s, u, id, file)
  \/ \E u \in Users, id \in ProductIds : StartDeleteImage(s, u, id)

\* the call in slot s runs up to its next await
Step(s) ==
  \/ CreateListCategories(s)
  \/ CreateInsert(s)
  \/ CreateUpload(s)
  \/ CreateAttach(s)
  \/ UpdateCheckCategory(s)
  \/ UpdateWrite(s)
  \/ RemoveDelete(s)
  \/ DeleteProductImagesList(s)
  \/ DeleteProductImagesRemove(s)
  \/ UploadImageUpload(s)
  \/ UploadImageAttach(s)
  \/ DeleteImageClear(s)

\* the response of the call in slot s is sent; the slot is free again
Respond(s) ==
  /\ calls[s].pc = "done"
  /\ calls' = [calls EXCEPT ![s] = Idle]
  /\ UNCHANGED <<categories, catCount, products, created, blobs, uuids, served>>

\* requests are served one at a time
Next ==
  \/ Quiet /\ Start(1)
  \/ \E s \in Slots : Step(s)
  \/ \E s \in Slots : Respond(s)
  \/ \E name \in {CatNames[i] : i \in 1..Len(CatNames)} : CategoryCreate(name)
  \/ \E id \in CategoryIds : CategoryRemove(id)

Spec == Init /\ [][Next]_vars

\* ----------------------------------------------------- listing products
\* products as they are created, with names, descriptions, prices and
\* categories that the filters tell apart
ListedDtos ==
  { [name |-> Text(<<"A", "b">>), description |-> NoText, categoryId |-> 1,
     imageUrl |-> NoUrl, price |-> 100],
    [name |-> Text(<<"c">>), description |-> Text(<<"a", " ", "d">>), categoryId |-> 1,
     imageUrl |-> NoUrl, price |-> 200],
    [name |-> Text(<<"c">>), description |-> NoText, categoryId |-> 2,
     imageUrl |-> NoUrl, price |-> 100],
    [name |-> Text(<<"A", "b">>), description |-> Text(<<"a", " ", "d">>), categoryId |-> 2,
     imageUrl |-> NoUrl, price |-> 200] }

\* the product tables that creates by one user lead to
ListedTables ==
  UNION { { [i \in 1..n |-> NewRow(i, f[i], "alice")] : f \in [1..n -> ListedDtos] } :
            n \in 0..MaxProducts }

\* both categories exist and the table holds up to MaxProducts products
ListInit ==
  /\ categories = [i \in 1..Len(CatNames) |-> CatNames[i]]
  /\ catCount = Len(CatNames)
  /\ products \in ListedTables
  /\ created = Len(products)
  /\ blobs = {}
  /\ uuids = 0
  /\ calls = [s \in Slots |-> Idle]
  /\ served = 0

\* list queries against a table, one at a time
ListNext ==
  \/ \E q \in Queries : Quiet /\ FindAll(1, q)
  \/ \E term \in SearchTerms : Quiet /\ Search(1, term)
  \/ \E s \in Slots : Respond(s)

ListSpec == ListInit /\ [][ListNext]_vars

\* ------------------------------------------------------ concurrent updates
\* both categories exist and alice has created one product
UpdateRaceInit ==
  /\ categories = [i \in 1..Len(CatNames) |-> CatNames[i]]
  /\ catCount = Len(CatNames)
  /\ \E dto \in CreateDtos :
       /\ dto.categoryId = 1
       /\ products = <<NewRow(1, dto, "alice")>>
  /\ created = 1
  /\ blobs = {}
  /\ uuids = 0
  /\ calls = [s \in Slots |-> Idle]
  /\ served = 0

\* updates are taken up in any free slot and their steps interleave
UpdateRaceNext ==
  \/ \E s \in Slots, u \in Users, id \in ProductIds, dto \in Patches :
       StartUpdate(s, u, id, dto)
  \/ \E s \in Slots : UpdateCheckCategory(s)
  \/ \E s \in Slots : UpdateWrite(s)
  \/ \E s \in Slots : Respond(s)

UpdateRaceSpec == UpdateRaceInit /\ [][UpdateRaceNext]_vars

\* ------------------------------------------------- a crash between awaits
\* no request is being served: every slot is free or holds a request that
\* died with the process
NoneInFlight == \A s \in Slots : calls[s].pc \in {"idle", "crashed"}

\* what is known of a call that died: who asked for what, the product it was
\* working on, the image URL it had supplied and the upload it had made
Died(c) ==
  [Idle EXCEPT !.op = c.op, !.pc = "crashed", !.userId = c.userId,
               !.id = IF c.op = "create" THEN c.product.id ELSE c.id,
               !.imageUrl = c.imageUrl, !.uploadResult = c.uploadResult]

\* the free slot a new request is taken up in: the lowest one
Free(s) == calls[s].pc = "idle" /\ \A t \in Slots : t < s => calls[t].pc # "idle"

\* the process stops while the call in slot s waits at an await: the call is
\* never resumed and never answered; what it has written stays written
Crash(s) ==
  /\ calls[s].pc \notin {"idle", "done", "crashed"}
  /\ calls' = [calls EXCEPT ![s] = Died(calls[s])]
  /\ UNCHANGED <<categories, catCount, products, created, blobs, uuids, served>>

\* both categories exist, there is no product yet
CrashInit ==
  /\ categories = [i \in 1..Len(CatNames) |-> CatNames[i]]
  /\ catCount = Len(CatNames)
  /\ products = <<>>
  /\ created = 0
  /\ blobs = {}
  /\ uuids = 0
  /\ calls = [s \in Slots |-> Idle]
  /\ served = 0

\* creates and image uploads, one at a time, with a process that may stop
CrashNext ==
  \/ \E s \in Slots, u \in Users, dto \in CreateDtos, file \in Files \cup {NoFile} :
       NoneInFlight /\ Free(s) /\ StartCreate(s, u, dto, file)
  \/ \E s \in Slots, u \in Users, id \in ProductIds, file \in Files \cup {NoFile} :
       NoneInFlight /\ Free(s) /\ StartUploadImage(s, u, id, file)
  \/ \E s \in Slots : CreateListCategories(s)
  \/ \E s \in Slots : CreateInsert(s)
  \/ \E s \in Slots : CreateUpload(s)
  \/ \E s \in Slots : CreateAttach(s)
  \/ \E s \in Slots : UploadImageUpload(s)
  \/ \E s \in Slots : UploadImageAttach(s)
  \/ \E s \in Slots : Respond(s)
  \/ \E s \in Slots : Crash(s)

CrashSpec == CrashInit /\ [][CrashNext]_vars

\* --------------------------------------------- a remove during a create
\* a create and a remove are served side by side and their steps interleave:
\* the row a create has inserted is visible, and can be removed, while the
\* create is still uploading
CreateRaceNext ==
  \/ \E u \in Users, dto \in CreateDtos, file \in Files \cup {NoFile} :
       StartCreate(1, u, dto, file)
  \/ \E u \in Users, id \in ProductIds : StartRemove(2, u, id)
  \/ CreateListCategories(1)
  \/ CreateInsert(1)
  \/ CreateUpload(1)
  \/ CreateAttach(1)
  \/ DeleteProductImagesList(2)
  \/ DeleteProductImagesRemove(2)
  \/ RemoveDelete(2)
  \/ \E s \in Slots : Respond(s)

CreateRaceSpec == CrashInit /\ [][CreateRaceNext]_vars

\* ------------------------------- an image upload during an image deletion
\* uploadImage and deleteImage calls on the product of UpdateRaceInit are
\* served side by side and their steps interleave
ImageRaceNext ==
  \/ \E u \in Users, id \in ProductIds, file \in Files \cup {NoFile} :
       StartUploadImage(1, u, id, file)
  \/ \E u \in Users, id \in ProductIds : StartDeleteImage(2, u, id)
  \/ UploadImageUpload(1)
  \/ UploadImageAttach(1)
  \/ DeleteProductImagesList(2)
  \/ DeleteProductImagesRemove(2)
  \/ DeleteImageClear(2)
  \/ \E s \in Slots : Respond(s)

ImageRaceSpec == UpdateRaceInit /\ [][ImageRaceNext]_vars

\* ------------------------------ a category removal during a product write
\* The services' own checks, step by step and without any constraint of the
\* store behind them: create and update look the category up and write
\* later; CategoriesService.remove looks the category up, counts its
\* products and deletes later.
\* product.create(...) after the category lookup
CreateInsertUnconstrained(s) ==
  LET c == calls[s]
      row == NewRow(created + 1, c.dto, c.userId)
  IN
  /\ c.op = "create" /\ c.pc = "insert"
  /\ created < MaxProducts
  /\ products' = Put(products, row.id, row)
  /\ created' = created + 1
  /\ SetCall(s, IF c.file.present
                 THEN [Goto(c, "upload") EXCEPT !.product = row, !.imageUrl = c.dto.imageUrl]
                 ELSE [Return(c, MsgCreated) EXCEPT !.result = row,
                                                    !.imageUrl = c.dto.imageUrl])
  /\ UNCHANGED <<categories, catCount, blobs, uuids>>

\* product.update({ where: { id }, data }) after the category lookup
UpdateWriteUnconstrained(s) ==
  LET c == calls[s] IN
  /\ c.op = "update" /\ c.pc = "write"
  /\ IF c.id \notin DOMAIN products
     THEN /\ SetCall(s, Throw(c, "Error", "Record to update not found"))
          /\ UNCHANGED products
     ELSE LET row == ApplyPatch(products[c.id], c.dto) IN
          /\ products' = Put(products, c.id, row)
          /\ SetCall(s, [Return(c, "") EXCEPT !.result = row])
  /\ UNCHANGED <<categories, catCount, created, blobs, uuids>>

\* CategoriesService.remove arrives and runs findOne
StartCategoryRemove(s, id) ==
  LET c == NewCall("categoryRemove", "", id, <<>>, NoFile) IN
  /\ calls[s].pc = "idle"
  /\ calls' = [calls EXCEPT ![s] =
                 IF id \in DOMAIN categories THEN Goto(c, "count")
                 ELSE Throw(c, "NotFound", "Category not found")]
  /\ UNCHANGED <<categories, catCount, products, created, blobs, uuids, served>>

\* product.count({ where: { categoryId: id } }) and if (productCount > 0)
CategoryRemoveCount(s) ==
  LET c == calls[s] IN
  /\ c.op = "categoryRemove" /\ c.pc = "count"
  /\ SetCall(s, IF ProductCount(c.id) > 0
                 THEN Throw(c, "BadRequest", "Cannot delete category that has products")
                 ELSE Goto(c, "delete"))
  /\ UNCHANGED <<categories, catCount, products, created, blobs, uuids>>

\* category.delete({ where: { id } })
CategoryRemoveDelete(s) ==
  LET c == calls[s] IN
  /\ c.op = "categoryRemove" /\ c.pc = "delete"
  /\ IF c.id \in DOMAIN categories
     THEN /\ categories' = Drop(categories, c.id)
          /\ SetCall(s, Return(c, ""))
     ELSE /\ SetCall(s, Throw(c, "Error", "Record to delete does not exist"))
          /\ UNCHANGED categories
  /\ UNCHANGED <<catCount, products, created, blobs, uuids>>

\* a product create or update in slot 1, a category removal in slot 2
CategoryRaceNext ==
  \/ \E u \in Users, dto \in CreateDtos : StartCreate(1, u, dto, NoFile)
  \/ \E u \in Users, id \in ProductIds, dto \in Patches : StartUpdate(1, u, id, dto)
  \/ \E id \in CategoryIds : StartCategoryRemove(2, id)
  \/ CreateListCategories(1)
  \/ CreateInsertUnconstrained(1)
  \/ UpdateCheckCategory(1)
  \/ UpdateWriteUnconstrained(1)
  \/ CategoryRemoveCount(2)
  \/ CategoryRemoveDelete(2)
  \/ \E s \in Slots : Respond(s)

CategoryRaceSpec == UpdateRaceInit /\ [][CategoryRaceNext]_vars

\* -------------------------------------------- listing while rows change
\* findAll query by query: Promise.all starts findMany and count as two
\* separate queries, which the store serves in either order, and other
\* requests may write between them
\* the queries that only page through the table
PagingQueries == {q \in Queries : DOMAIN q \subseteq {"page", "limit"}}

\* the request arrives, is validated, and both queries are sent
StartFindAll(s, q) ==
  LET c == NewCall("findAll", "", 0, q, NoFile) IN
  /\ calls[s].pc = "idle"
  /\ calls' = [calls EXCEPT ![s] =
                 IF ~ValidateQuery(q)
                 THEN [c EXCEPT !.pc = "done", !.status = "BadRequest",
                                !.message = "Validation failed"]
                 ELSE Goto(c, "queries")]
  /\ UNCHANGED <<categories, catCount, products, created, blobs, uuids, served>>

\* both queries have resolved: return { products, total, page, limit, totalPages, message }
FindAllReturn(c, found, total) ==
  [c EXCEPT !.pc = "done", !.status = "ok",
            !.listing = [products |-> found, total |-> total,
                         page |-> PageOf(c.dto), limit |-> LimitOf(c.dto),
                         totalPages |-> MathCeil(total, LimitOf(c.dto)),
                         message |-> IF Len(found) = 0 THEN "No products found" ELSE ""]]

\* product.findMany({ where, skip, take: limit, orderBy: { createdAt: 'desc' } })
FindAllFindMany(s) ==
  LET c == calls[s]
      found == SkipTake(OrderByCreatedAtDesc(Where(c.dto)), Skip(c.dto), LimitOf(c.dto))
  IN
  /\ c.op = "findAll" /\ c.pc \in {"queries", "findMany"}
  /\ SetCall(s, IF c.pc = "queries"
                 THEN [c EXCEPT !.pc = "count", !.listing.products = found]
                 ELSE FindAllReturn(c, found, c.listing.total))
  /\ UNCHANGED <<categories, catCount, products, created, blobs, uuids>>

\* product.count({ where })
FindAllCount(s) ==
  LET c == calls[s]
      total == Cardinality(Where(c.dto))
  IN
  /\ c.op = "findAll" /\ c.pc \in {"queries", "count"}
  /\ SetCall(s, IF c.pc = "queries"
                 THEN [c EXCEPT !.pc = "findMany", !.listing.total = total]
                 ELSE FindAllReturn(c, c.listing.products, total))
  /\ UNCHANGED <<categories, catCount, products, created, blobs, uuids>>

\* a listing in slot 1, creates and removes in slot 2; no file is uploaded,
\* so remove finds no blob to delete
ListRaceNext ==
  \/ \E q \in PagingQueries : StartFindAll(1, q)
  \/ FindAllFindMany(1)
  \/ FindAllCount(1)
  \/ \E u \in Users, dto \in CreateDtos : StartCreate(2, u, dto, NoFile)
  \/ CreateListCategories(2)
  \/ CreateInsert(2)
  \/ \E u \in Users, id \in ProductIds : StartRemove(2, u, id)
  \/ DeleteProductImagesList(2)
  \/ RemoveDelete(2)
  \/ \E s \in Slots : Respond(s)

ListRaceSpec == UpdateRaceInit /\ [][ListRaceNext]_vars

\* ===================================================================
\* Properties
\* ===================================================================
\* this step takes up a new request in slot s
Arrives(s) == calls[s].pc = "idle" /\ calls'[s].pc # "idle"

\* this step is a step of the call in slot s, which was at pc
StepAt(s, op, pc) == calls[s].op = op /\ calls[s].pc = pc /\ calls'[s] # calls[s]

\* C1: in create, when the category exists, a file is supplied and the image
\* step fails (nothing is stored), create does not fail: the row inserted
\* before the upload is still in the store, it is the product returned, and
\* the message says the product was created but the image upload failed.
CreateSurvivesUploadFailure ==
  [][\A s \in Slots :
       (StepAt(s, "create", "upload") /\ blobs' = blobs)
         => /\ calls'[s].pc = "done"
            /\ calls'[s].status = "ok"
            /\ calls'[s].message = MsgCreatedUploadFailed
            /\ calls'[s].result = calls[s].product
            /\ calls[s].product.id \in DOMAIN products'
            /\ products'[calls[s].product.id] = calls[s].product
            /\ products' = products]_vars

CreateSurvivesUploadFailureWitness ==
  \E s \in Slots :
    /\ calls[s].op = "create" /\ calls[s].pc = "done" /\ calls[s].caught
    /\ calls[s].status = "ok" /\ calls[s].message = MsgCreatedUploadFailed
    /\ calls[s].result.id \in DOMAIN products
    /\ products[calls[s].result.id] = calls[s].result

\* C2: in create with an image file (and a literal image URL, or none): when
\* the upload succeeds the URL stored on the row and returned is the one the
\* Blob Store returned for the stored object, not the supplied one; when the
\* upload fails the row still exists and keeps the supplied URL (or none).
CreateFileTakesPrecedence ==
  [][\A s \in Slots :
       LET c == calls[s]
           id == c.product.id
       IN
       /\ (StepAt(s, "create", "upload") /\ blobs' # blobs)
            => /\ calls'[s].pc = "attach"
               /\ \E key \in blobs' \ blobs :
                    /\ key.pid = id
                    /\ calls'[s].uploadResult = PublicUrl(key)
       /\ StepAt(s, "create", "attach")
            => /\ id \in DOMAIN products'
               /\ products'[id].imageUrl = c.uploadResult
               /\ calls'[s].result = products'[id]
               /\ calls'[s].imageUrl = c.uploadResult
               /\ c.uploadResult # c.dto.imageUrl
               /\ calls'[s].message = MsgCreatedUploaded
       /\ (StepAt(s, "create", "upload") /\ blobs' = blobs)
            => /\ id \in DOMAIN products'
               /\ products'[id].imageUrl = c.dto.imageUrl
               /\ calls'[s].imageUrl = c.dto.imageUrl]_vars

\* a create with both a literal URL and a file, whose upload succeeded
CreateFileTakesPrecedenceWitness ==
  \E s \in Slots :
    /\ calls[s].op = "create" /\ calls[s].pc = "attach"
    /\ calls[s].dto.imageUrl = Lit("http://img")
    /\ calls[s].file.present
    /\ calls[s].uploadResult.kind = "blob"
    /\ calls[s].uploadResult.key \in blobs

GuardedOps == {"update", "remove", "uploadImage", "deleteImage"}

\* C3: update, remove, uploadImage and deleteImage called on an existing
\* product by a requester that is not its owner fail with Forbidden, and the
\* product table (and the Blob Store) is left as it was.
NonOwnerIsForbidden ==
  [][\A s \in Slots :
       (/\ Arrives(s)
        /\ calls'[s].op \in GuardedOps
        /\ calls'[s].id \in DOMAIN products
        /\ products[calls'[s].id].userId # calls'[s].userId)
         => /\ calls'[s].pc = "done"
            /\ calls'[s].status = "Forbidden"
            /\ products' = products
            /\ blobs' = blobs]_vars

NonOwnerIsForbiddenWitness ==
  \E s \in Slots :
    /\ calls[s].op = "deleteImage" /\ calls[s].pc = "done"
    /\ calls[s].status = "Forbidden"
    /\ calls[s].id \in DOMAIN products
    /\ products[calls[s].id].userId # calls[s].userId
    /\ TruthyUrl(products[calls[s].id].imageUrl)


\* C4: a product's owner reference is the identity that created it and never
\* changes: a row that appears was inserted by a create and carries that
\* call's requester, and no step changes the owner of a row that stays.
OwnerSetOnceAtCreation ==
  [][\A id \in DOMAIN products' :
       IF id \in DOMAIN products
       THEN products'[id].userId = products[id].userId
       ELSE \E s \in Slots :
              /\ StepAt(s, "create", "insert")
              /\ products'[id].userId = calls[s].userId]_vars

\* a product that went through an update and an image upload
OwnerSetOnceAtCreationWitness ==
  \E id \in DOMAIN products :
    /\ products[id].price \in NewPrices
    /\ products[id].imageUrl.kind = "blob"
    /\ products[id].userId \in Users

\* the entries of a category list
Entries(list) == {list[i] : i \in 1..Len(list)}

\* C5: create with a category id that does not exist fails with NotFound,
\* inserts no row and uploads nothing; the message says that no categories
\* exist when there are none, and otherwise lists every existing category
\* as <id, name>, in ascending order of name.
CreateUnknownCategory ==
  [][\A s \in Slots :
       /\ (/\ Arrives(s)
           /\ calls'[s].op = "create"
           /\ calls'[s].dto.categoryId \notin DOMAIN categories)
            => /\ calls'[s].pc = "listCategories"
               /\ products' = products /\ blobs' = blobs
       /\ StepAt(s, "create", "listCategories")
            => LET list == calls'[s].list IN
               /\ calls'[s].pc = "done"
               /\ calls'[s].status = "NotFound"
               /\ products' = products /\ blobs' = blobs
               /\ IF DOMAIN categories = {}
                  THEN calls'[s].message = MsgNoCategories /\ list = <<>>
                  ELSE /\ calls'[s].message = MsgAvailableCategories
                       /\ Len(list) = Cardinality(DOMAIN categories)
                       /\ Entries(list) = {<<id, categories[id]>> : id \in DOMAIN categories}
                       /\ \A i, j \in 1..Len(list) :
                            i < j => NameRank(list[i][2]) < NameRank(list[j][2])]_vars

\* the error lists two categories whose name order is not their id order
CreateUnknownCategoryWitness ==
  \E s \in Slots :
    /\ calls[s].op = "create" /\ calls[s].pc = "done"
    /\ calls[s].status = "NotFound"
    /\ Len(calls[s].list) = 2
    /\ calls[s].list[1][1] > calls[s].list[2][1]

\* C6: uploadImage by the owner sets the row's image URL to the URL of the
\* object the Blob Store stored if and only if the upload succeeded; when
\* the upload (or its validation) fails the call fails with BadRequest and
\* the product table is left as it was.
UploadImageAllOrNothing ==
  [][\A s \in Slots :
       LET c == calls[s] IN
       /\ (/\ Arrives(s)
           /\ calls'[s].op = "uploadImage"
           /\ calls'[s].id \in DOMAIN products
           /\ products[calls'[s].id].userId = calls'[s].userId)
            => calls'[s].pc = "upload" /\ products' = products
       /\ (StepAt(s, "uploadImage", "upload") /\ ValidateFile(c.file) # "ok")
            => blobs' = blobs
       /\ (StepAt(s, "uploadImage", "upload") /\ blobs' = blobs)
            => /\ calls'[s].pc = "done"
               /\ calls'[s].status = "BadRequest"
               /\ products' = products
       /\ (StepAt(s, "uploadImage", "upload") /\ blobs' # blobs)
            => /\ calls'[s].pc = "attach"
               /\ products' = products
               /\ \E key \in blobs' \ blobs :
                    /\ key.pid = c.id /\ key.uid = c.userId
                    /\ calls'[s].uploadResult = PublicUrl(key)
       /\ StepAt(s, "uploadImage", "attach")
            => /\ calls'[s].status = "ok"
               /\ products' = Put(products, c.id,
                                  [products[c.id] EXCEPT !.imageUrl = c.uploadResult])
               /\ calls'[s].imageUrl = c.uploadResult
               /\ calls'[s].result = products'[c.id]]_vars

\* an upload by the owner onto a product that has an image failed
UploadImageAllOrNothingWitness ==
  \E s \in Slots :
    /\ calls[s].op = "uploadImage" /\ calls[s].pc = "done"
    /\ calls[s].status = "BadRequest"
    /\ calls[s].id \in DOMAIN products
    /\ products[calls[s].id].userId = calls[s].userId
    /\ products[calls[s].id].imageUrl.kind = "blob"

\* C7: deleteImage by the owner on a product that has no image URL fails
\* with BadRequest and leaves the product table (and the Blob Store) as it was.
DeleteImageWithoutImage ==
  [][\A s \in Slots :
       (/\ Arrives(s)
        /\ calls'[s].op = "deleteImage"
        /\ calls'[s].id \in DOMAIN products
        /\ products[calls'[s].id].userId = calls'[s].userId
        /\ products[calls'[s].id].imageUrl = NoUrl)
         => /\ calls'[s].pc = "done"
            /\ calls'[s].status = "BadRequest"
            /\ products' = products
            /\ blobs' = blobs]_vars

DeleteImageWithoutImageWitness ==
  \E s \in Slots :
    /\ calls[s].op = "deleteImage" /\ calls[s].pc = "done"
    /\ calls[s].status = "BadRequest"
    /\ calls[s].id \in DOMAIN products
    /\ products[calls[s].id].userId = calls[s].userId
    /\ products[calls[s].id].imageUrl = NoUrl

\* C8: in remove by the owner a failure of the Blob Store cleanup is not
\* surfaced and does not block the deletion: while the images are being
\* deleted the call never ends and the table is untouched, and the delete
\* step that follows removes the row and returns successfully.
RemoveSwallowsCleanupFailure ==
  [][\A s \in Slots :
       LET c == calls[s] IN
       /\ (c.op = "remove" /\ c.pc \in {"list", "removeBlobs"} /\ calls'[s] # c)
            => /\ calls'[s].pc \in {"removeBlobs", "delete"}
               /\ calls'[s].status = "pending"
               /\ products' = products
               /\ (c.pc = "removeBlobs" /\ blobs' = blobs) => calls'[s].pc = "delete"
       /\ StepAt(s, "remove", "delete")
            => /\ calls'[s].pc = "done"
               /\ calls'[s].status = "ok"
               /\ c.id \in DOMAIN products
               /\ products' = Drop(products, c.id)]_vars

\* a remove whose image cleanup failed has returned and the row is gone
RemoveSwallowsCleanupFailureWitness ==
  \E s \in Slots :
    /\ calls[s].op = "remove" /\ calls[s].pc = "done"
    /\ calls[s].caught
    /\ calls[s].status = "ok"
    /\ calls[s].id \notin DOMAIN products
    /\ Folder(calls[s].id, calls[s].userId) # {}

\* the row carries a URL: neither null nor the empty string
HasImageUrl(row) == row.imageUrl # NoUrl /\ row.imageUrl # Lit("")

\* C9: deleteImage by the owner on a product with an image URL deletes the
\* blobs under the product+owner folder first and only then sets the row's
\* image URL to null; if the blob deletion fails the call fails with that
\* error (BadRequest) and the row is left as it was.
DeleteImageBlobsFirst ==
  [][\A s \in Slots :
       LET c == calls[s] IN
       /\ (/\ Arrives(s)
           /\ calls'[s].op = "deleteImage"
           /\ calls'[s].id \in DOMAIN products
           /\ products[calls'[s].id].userId = calls'[s].userId
           /\ HasImageUrl(products[calls'[s].id]))
            => calls'[s].pc = "list" /\ products' = products
       /\ (c.op = "deleteImage" /\ c.pc \in {"list", "removeBlobs"} /\ calls'[s] # c)
            => /\ products' = products
               /\ calls'[s].pc \in {"removeBlobs", "clear", "done"}
               /\ calls'[s].pc = "done"
                    => calls'[s].status = "BadRequest" /\ blobs' = blobs
               /\ calls'[s].pc = "clear"
                    => {k \in blobs' : k.pid = c.id /\ k.uid = c.userId} = {}
       /\ StepAt(s, "deleteImage", "clear")
            => /\ Folder(c.id, c.userId) = {}
               /\ blobs' = blobs
               /\ calls'[s].status = "ok"
               /\ products' = Put(products, c.id, [products[c.id] EXCEPT !.imageUrl = NoUrl])]_vars

\* the blobs listed are gone and the row still carries its URL
DeleteImageBlobsFirstWitness ==
  \E s \in Slots :
    /\ calls[s].op = "deleteImage" /\ calls[s].pc = "clear"
    /\ calls[s].files # {}
    /\ Folder(calls[s].id, calls[s].userId) = {}
    /\ HasImageUrl(products[calls[s].id])

\* C10: update by the owner with a category reference verifies it: if the
\* category does not exist the call fails with NotFound and the product
\* table is left as it was; if it exists the write that follows sets the
\* row's category reference to the new one.
UpdateRevalidatesCategory ==
  [][\A s \in Slots :
       LET c == calls[s] IN
       /\ (/\ Arrives(s)
           /\ calls'[s].op = "update"
           /\ calls'[s].id \in DOMAIN products
           /\ products[calls'[s].id].userId = calls'[s].userId
           /\ "categoryId" \in DOMAIN calls'[s].dto)
            => calls'[s].pc = "checkCategory" /\ products' = products
       /\ StepAt(s, "update", "checkCategory")
            => /\ products' = products
               /\ IF c.dto.categoryId \in DOMAIN categories
                  THEN calls'[s].pc = "write"
                  ELSE calls'[s].pc = "done" /\ calls'[s].status = "NotFound"
       /\ (StepAt(s, "update", "write") /\ "categoryId" \in DOMAIN c.dto)
            => /\ calls'[s].status = "ok"
               /\ c.id \in DOMAIN products'
               /\ products'[c.id].categoryId = c.dto.categoryId
               /\ calls'[s].result = products'[c.id]]_vars

\* an update by the owner was refused for its category; the row has its old one
UpdateRevalidatesCategoryWitness ==
  \E s \in Slots :
    /\ calls[s].op = "update" /\ calls[s].pc = "done"
    /\ calls[s].status = "NotFound"
    /\ calls[s].id \in DOMAIN products
    /\ products[calls[s].id].userId = calls[s].userId
    /\ products[calls[s].id].categoryId \in DOMAIN categories

\* C11: a create call whose category exists goes on to insert, and the row it
\* inserts carries the category reference of the input and the identity of
\* the caller; the image steps that follow leave both as they are, and the
\* product returned is that row.
CreateStoresCategoryAndOwner ==
  [][\A s \in Slots :
       LET c == calls[s] IN
       /\ (/\ Arrives(s)
           /\ calls'[s].op = "create"
           /\ calls'[s].dto.categoryId \in DOMAIN categories)
            => calls'[s].pc = "insert"
       /\ StepAt(s, "create", "insert")
            => /\ DOMAIN products' = DOMAIN products \cup {created'}
               /\ created' \notin DOMAIN products
               /\ products'[created'].categoryId = c.dto.categoryId
               /\ products'[created'].userId = c.userId
       /\ (c.op = "create" /\ c.pc \in {"upload", "attach"} /\ calls'[s] # c)
            => /\ products'[c.product.id].categoryId = c.dto.categoryId
               /\ products'[c.product.id].userId = c.userId
       /\ (c.op = "create" /\ calls'[s] # c /\ calls'[s].pc = "done"
             /\ calls'[s].status = "ok")
            => /\ calls'[s].result = products'[calls'[s].result.id]
               /\ calls'[s].result.categoryId = c.dto.categoryId
               /\ calls'[s].result.userId = c.userId]_vars

\* a create with an image has returned the row it stored, owned by the caller
CreateStoresCategoryAndOwnerWitness ==
  \E s \in Slots :
    /\ calls[s].op = "create" /\ calls[s].pc = "done" /\ calls[s].status = "ok"
    /\ calls[s].result.id \in DOMAIN products
    /\ products[calls[s].result.id] = calls[s].result
    /\ calls[s].result.userId = calls[s].userId
    /\ calls[s].result.categoryId \in DOMAIN categories
    /\ calls[s].result.imageUrl.kind = "blob"

\* C12: deleting a category while at least one product still references it
\* is rejected (BadRequest), and the category remains in the store.
CategoryWithProductsStays ==
  [][\A s \in Slots :
       (/\ Arrives(s)
        /\ calls'[s].op = "categoryRemove"
        /\ \E p \in DOMAIN products : products[p].categoryId = calls'[s].id)
         => /\ calls'[s].pc = "done"
            /\ calls'[s].status = "BadRequest"
            /\ categories' = categories
            /\ products' = products]_vars

\* the removal of a category that a product references was refused
CategoryWithProductsStaysWitness ==
  \E s \in Slots :
    /\ calls[s].op = "categoryRemove" /\ calls[s].pc = "done"
    /\ calls[s].status = "BadRequest"
    /\ calls[s].id \in DOMAIN categories
    /\ \E p \in DOMAIN products : products[p].categoryId = calls[s].id

\* the id was handed out to a product and its row is gone: rows are only
\* ever deleted by a remove that succeeded
Removed(id) == id \in 1..created /\ id \notin DOMAIN products

\* C13: once remove(id) by the owner has succeeded the row is gone and stays
\* gone, and every later findOne, update, remove, uploadImage and deleteImage
\* on that id fails with NotFound, whoever the requester is, changing nothing.
RemovedProductIsNotFound ==
  [][/\ \A s \in Slots :
          (StepAt(s, "remove", "delete") /\ calls'[s].status = "ok")
            => /\ products[calls[s].id].userId = calls[s].userId
               /\ calls[s].id \in 1..created'
               /\ calls[s].id \notin DOMAIN products'
     /\ \A id \in ProductIds :
          (id \in DOMAIN products /\ id \notin DOMAIN products')
            => \E s \in Slots : StepAt(s, "remove", "delete") /\ calls[s].id = id
     /\ \A id \in ProductIds : Removed(id) => id \notin DOMAIN products'
     /\ \A s \in Slots :
          (/\ Arrives(s)
           /\ calls'[s].op \in {"findOne", "update", "remove", "uploadImage", "deleteImage"}
           /\ Removed(calls'[s].id))
            => /\ calls'[s].pc = "done"
               /\ calls'[s].status = "NotFound"
               /\ products' = products
               /\ blobs' = blobs]_vars

\* an image upload onto a removed product was answered with NotFound
RemovedProductIsNotFoundWitness ==
  \E s \in Slots :
    /\ calls[s].op = "uploadImage" /\ calls[s].pc = "done"
    /\ calls[s].status = "NotFound"
    /\ Removed(calls[s].id)

\* the list queries that have been answered
Listed == {s \in Slots : calls[s].op = "findAll" /\ calls[s].pc = "done"}

\* C14: for every findAll query that is answered, totalPages is
\* ceil(total / limit), that is the least number of pages of limit rows that
\* hold total rows, and the number of returned products is at most limit.
FindAllTotalPages ==
  \A s \in Listed :
    LET r == calls[s].listing IN
    calls[s].status = "ok"
      => /\ r.totalPages * r.limit >= r.total
         /\ (r.totalPages - 1) * r.limit < r.total
         /\ Len(r.products) <= r.limit

\* two matching rows listed one per page: the first of two pages
FindAllTotalPagesWitness ==
  \E s \in Listed :
    /\ calls[s].status = "ok"
    /\ calls[s].listing.total = 2
    /\ calls[s].listing.limit = 1
    /\ calls[s].listing.totalPages = 2
    /\ Len(calls[s].listing.products) = 1

\* the limit of the query is absent or within [1, 100]
LimitGiven(q) == "limit" \in DOMAIN q

LimitInRange(q) == LimitGiven(q) => (q.limit >= 1 /\ q.limit <= 100)

PageGiven(q) == "page" \in DOMAIN q

\* C15, as claimed: a page that is absent or less than 1 is served as page 1
\* and never produces an error.
FindAllPageClamped ==
  \A s \in Listed :
    LET q == calls[s].dto IN
    (LimitInRange(q) /\ (PageGiven(q) => q.page < 1))
      => calls[s].status = "ok" /\ calls[s].listing.page = 1

\* C15, amended: the page number defaults to 1 when it is absent; a page less
\* than 1 is rejected with BadRequest before any query is made; a page of at
\* least 1 is used as given, so the offset is never negative.
FindAllPageDefaultOrRejected ==
  \A s \in Listed :
    LET q == calls[s].dto
        r == calls[s].listing
    IN
    /\ (PageGiven(q) /\ q.page < 1)
         => calls[s].status = "BadRequest" /\ r = NoListing
    /\ (LimitInRange(q) /\ ~PageGiven(q))
         => calls[s].status = "ok" /\ r.page = 1
    /\ (LimitInRange(q) /\ PageGiven(q) /\ q.page >= 1)
         => calls[s].status = "ok" /\ r.page = q.page
    /\ calls[s].status = "ok" => (r.page - 1) * r.limit >= 0

\* page 0 with an acceptable limit was rejected
FindAllPageDefaultOrRejectedWitness ==
  \E s \in Listed :
    /\ PageGiven(calls[s].dto) /\ calls[s].dto.page = 0
    /\ LimitInRange(calls[s].dto)
    /\ calls[s].status = "BadRequest"

\* the limit of the query brought into [1, 100], 10 when absent
ClampedLimit(q) ==
  IF ~LimitGiven(q) THEN 10
  ELSE IF q.limit < 1 THEN 1 ELSE IF q.limit > 100 THEN 100 ELSE q.limit

\* C16, as claimed: the page size defaults to 10 and is clamped to [1, 100]:
\* every query is answered with its limit brought into that range.
FindAllLimitClamped ==
  \A s \in Listed :
    LET q == calls[s].dto IN
    (PageGiven(q) => q.page >= 1)
      => calls[s].status = "ok" /\ calls[s].listing.limit = ClampedLimit(q)

\* C16, amended: the page size defaults to 10 when absent; a page size outside
\* [1, 100] is rejected with BadRequest before any query is made; so the limit
\* used for the query and reported in the result is always between 1 and 100.
FindAllLimitDefaultOrRejected ==
  \A s \in Listed :
    LET q == calls[s].dto
        r == calls[s].listing
    IN
    /\ (LimitGiven(q) /\ (q.limit < 1 \/ q.limit > 100))
         => calls[s].status = "BadRequest" /\ r = NoListing
    /\ calls[s].status = "ok"
         => /\ r.limit >= 1 /\ r.limit <= 100
            /\ r.limit = IF LimitGiven(q) THEN q.limit ELSE 10
            /\ Len(r.products) <= r.limit

\* a page size of 101 was rejected
FindAllLimitDefaultOrRejectedWitness ==
  \E s \in Listed :
    /\ LimitGiven(calls[s].dto) /\ calls[s].dto.limit = 101
    /\ ~PageGiven(calls[s].dto)
    /\ calls[s].status = "BadRequest"

\* the rows whose price is within the bounds the query gives
WithinPrice(q) ==
  {id \in DOMAIN products :
     /\ "minPrice" \in DOMAIN q => products[id].price >= q.minPrice
     /\ "maxPrice" \in DOMAIN q => products[id].price <= q.maxPrice}

\* the query filters on nothing but the price
PriceOnly(q) == "categoryId" \notin DOMAIN q /\ "search" \notin DOMAIN q

\* C17: the price filter selects exactly the products with price >= minPrice
\* (when given) and price <= maxPrice (when given), inclusive at both bounds,
\* and no price constraint applies when both are absent; an inverted range
\* yields zero results without error.
FindAllPriceFilter ==
  \A s \in Listed :
    LET q == calls[s].dto
        r == calls[s].listing
    IN
    calls[s].status = "ok"
      => /\ \A i \in 1..Len(r.products) : r.products[i].id \in WithinPrice(q)
         /\ PriceOnly(q) => r.total = Cardinality(WithinPrice(q))
         /\ (PriceOnly(q) /\ "minPrice" \notin DOMAIN q /\ "maxPrice" \notin DOMAIN q)
              => r.total = Cardinality(DOMAIN products)
         /\ ("minPrice" \in DOMAIN q /\ "maxPrice" \in DOMAIN q /\ q.minPrice > q.maxPrice)
              => r.total = 0 /\ r.products = <<>>

\* both bounds at the price of a product: it is listed, a dearer one is not
FindAllPriceFilterWitness ==
  \E s \in Listed :
    LET q == calls[s].dto IN
    /\ calls[s].status = "ok"
    /\ PriceOnly(q)
    /\ "minPrice" \in DOMAIN q /\ "maxPrice" \in DOMAIN q
    /\ q.minPrice = q.maxPrice
    /\ calls[s].listing.total = 1
    /\ Len(calls[s].listing.products) = 1
    /\ calls[s].listing.products[1].price = q.minPrice
    /\ Cardinality(DOMAIN products) = 2

\* the characters of a term without its leading and trailing blanks
RECURSIVE Trimmed(_)
Trimmed(chars) ==
  IF chars = <<>> THEN <<>>
  ELSE IF Head(chars) = " " THEN Trimmed(Tail(chars))
  ELSE IF chars[Len(chars)] = " " THEN Trimmed(SubSeq(chars, 1, Len(chars) - 1))
  ELSE chars

\* the rows whose name or description contains the term, whatever the case
Mentioning(term) ==
  {id \in DOMAIN products :
     \/ ContainsInsensitive(products[id].name, term)
     \/ ContainsInsensitive(products[id].description, term)}

\* the query filters on nothing but the text
TextOnly(q) ==
  "categoryId" \notin DOMAIN q /\ "minPrice" \notin DOMAIN q /\ "maxPrice" \notin DOMAIN q

\* C18: a search term that is non-empty after trimming restricts the result
\* to the rows whose name or description contains it case-insensitively; an
\* absent term, or one that is empty after trimming, applies no text filter.
FindAllSearchTrimmed ==
  \A s \in Listed :
    LET q == calls[s].dto
        r == calls[s].listing
    IN
    (calls[s].status = "ok" /\ TextOnly(q))
      => IF "search" \in DOMAIN q /\ Trimmed(q.search.chars) # <<>>
         THEN r.total = Cardinality(Mentioning(q.search))
         ELSE r.total = Cardinality(DOMAIN products)

\* C19: when updates to the same product run concurrently, none is rejected
\* for staleness: the row write of an update succeeds also when the row has
\* changed since the update read it, it sets every field the update supplies
\* and leaves every other field as the row has it at that moment; so a field
\* supplied by two updates ends with the value of the write applied last.
ConcurrentUpdatesLastWriterWins ==
  [][\A s \in Slots :
       LET c == calls[s] IN
       StepAt(s, "update", "write")
         => /\ calls'[s].pc = "done"
            /\ calls'[s].status = "ok"
            /\ \A f \in DOMAIN c.dto : products'[c.id][f] = c.dto[f]
            /\ \A f \in DOMAIN products[c.id] \ DOMAIN c.dto :
                 products'[c.id][f] = products[c.id][f]
            /\ calls'[s].result = products'[c.id]]_vars

\* one update has written the category, the other, which read the row
\* before that write, is about to write another category
ConcurrentUpdatesLastWriterWinsWitness ==
  \E s, t \in Slots :
    /\ s # t
    /\ calls[s].op = "update" /\ calls[s].pc = "done" /\ calls[s].status = "ok"
    /\ calls[t].op = "update" /\ calls[t].pc = "write"
    /\ calls[t].id = calls[s].id
    /\ calls[t].product # products[calls[t].id]
    /\ products[calls[t].id] = calls[s].result
    /\ "categoryId" \in DOMAIN calls[t].dto
    /\ calls[t].dto.categoryId # calls[s].result.categoryId
    /\ calls[t].product.categoryId # calls[s].result.categoryId

\* the create in slot s died after its upload and before its row update
DiedBeforeAttach(s) ==
  calls[s].op = "create" /\ calls[s].pc = "crashed" /\ calls[s].uploadResult # NoUrl

FindAllWindow ==
  \A s \in Listed :
    LET q == calls[s].dto
        r == calls[s].listing
        offset == (r.page - 1) * r.limit
        left == r.total - offset
    IN
    calls[s].status = "ok"
      => /\ r.total = Cardinality(Where(q))
         /\ Len(r.products) = IF left <= 0 THEN 0
                              ELSE IF left < r.limit THEN left ELSE r.limit
         /\ \A i \in 1..Len(r.products) :
              /\ r.products[i].id \in Where(q)
              /\ r.products[i] = products[r.products[i].id]
              /\ Cardinality({j \in Where(q) : j > r.products[i].id}) = offset + i - 1

\* page 2 of two matching rows, one per page: the older row
FindAllWindowWitness ==
  \E s \in Listed :
    /\ calls[s].status = "ok"
    /\ calls[s].listing.page = 2
    /\ calls[s].listing.limit = 1
    /\ calls[s].listing.total = 2
    /\ Len(calls[s].listing.products) = 1
    /\ calls[s].listing.products[1].id = 1

\* the searches that have been answered
Searched == {s \in Slots : calls[s].op = "search" /\ calls[s].pc = "done"}

\* C22: search(term) returns all products whose name or description contains
\* the term, whatever their category and price, unpaginated and newest
\* first: for every term the rows are those findAll returns for a query with
\* only that search term and a limit that holds every match.
SearchIsFindAllByTerm ==
  \A s \in Searched :
    LET term == calls[s].dto.query
        rows == calls[s].listing.products
        all == FindAllResult([search |-> term, limit |-> LimitMax])
    IN
    /\ calls[s].status = "ok"
    /\ {rows[i].id : i \in 1..Len(rows)} = Mentioning(term)
    /\ Len(rows) = Cardinality(Mentioning(term))
    /\ \A i, j \in 1..Len(rows) : i < j => rows[i].id > rows[j].id
    /\ \A i \in 1..Len(rows) : rows[i] = products[rows[i].id]
    /\ all.total <= LimitMax => rows = all.products

\* a search found a row by its description alone and left another row out
SearchIsFindAllByTermWitness ==
  \E s \in Searched :
    LET term == calls[s].dto.query
        rows == calls[s].listing.products
    IN
    /\ term.chars # <<>>
    /\ \E i \in 1..Len(rows) : ~ContainsInsensitive(rows[i].name, term)
    /\ Len(rows) < Cardinality(DOMAIN products)

\* C23: a successful update changes only the fields present in the patch:
\* every field of the row that the patch does not supply keeps its previous
\* value, the supplied ones take the patch's value, and no other product row
\* changes.
UpdateChangesOnlyPatch ==
  [][\A s \in Slots :
       (StepAt(s, "update", "write") /\ calls'[s].status = "ok")
         => LET id == calls[s].id
                data == calls[s].dto
            IN
            /\ DOMAIN products' = DOMAIN products
            /\ \A f \in DOMAIN products[id] :
                 products'[id][f] = IF f \in DOMAIN data THEN data[f]
                                    ELSE products[id][f]
            /\ \A other \in DOMAIN products \ {id} :
                 products'[other] = products[other]
            /\ calls'[s].result = products'[id]]_vars

\* an update of the price alone answered with the row's image URL as it
\* was, beside another row
UpdateChangesOnlyPatchWitness ==
  \E s \in Slots :
    /\ calls[s].op = "update" /\ calls[s].pc = "done" /\ calls[s].status = "ok"
    /\ calls[s].result.price \in NewPrices
    /\ calls[s].result.imageUrl \in LiteralUrls
    /\ Cardinality(DOMAIN products) = 2

\* a file is given, of at most 5MB, with one of the four image types
FileIsAcceptable(file) ==
  /\ file.present
  /\ file.size <= 5 * 1024 * 1024
  /\ file.mimetype \in {"image/jpeg", "image/png", "image/webp", "image/gif"}

\* C24: an image upload is accepted only when a file is given, its size is
\* at most 5MB and its type is jpeg, png, webp or gif; otherwise the upload
\* fails with BadRequest before the Blob Store is asked: no blob is stored
\* and no object name is drawn.
UploadNeedsAcceptableFile ==
  [][\A s \in Slots :
       (StepAt(s, "uploadImage", "upload") \/ StepAt(s, "create", "upload"))
         => LET c == calls[s] IN
            /\ blobs' # blobs => FileIsAcceptable(c.file)
            /\ ~FileIsAcceptable(c.file)
                 => /\ blobs' = blobs /\ uuids' = uuids /\ products' = products
                    /\ calls'[s].pc = "done"
                    /\ c.op = "uploadImage"
                         => /\ calls'[s].status = "BadRequest"
                            /\ calls'[s].message \in
                                 {"No file provided", "File size too large", "Invalid file type"}
                    /\ c.op = "create" => calls'[s].caught]_vars

\* an upload was refused for the size of its file while the store was
\* still accepting objects
UploadNeedsAcceptableFileWitness ==
  \E s \in Slots :
    /\ calls[s].op = "uploadImage" /\ calls[s].pc = "done"
    /\ calls[s].status = "BadRequest"
    /\ calls[s].message = "File size too large"
    /\ uuids < MaxBlobs

\* C25: whenever create returns the message 'Product created successfully,
\* but image upload failed', no blob was stored for that product: the message
\* is produced by the step in which the upload fails, which stores nothing,
\* and never by a later step of a create whose upload had succeeded.
CreateUploadFailedMeansNoBlob ==
  [][\A s \in Slots :
       (/\ calls[s].op = "create" /\ calls[s].pc # "done"
        /\ calls'[s].pc = "done"
        /\ calls'[s].message = "Product created successfully, but image upload failed")
         => /\ calls[s].pc = "upload"
            /\ calls[s].uploadResult = NoUrl
            /\ blobs' = blobs]_vars

\* C26: under any interleaving of uploadImage and deleteImage calls by the
\* owner on the same product, once all calls have completed, a row image URL
\* that was produced by the Blob Store refers to a blob that still exists in
\* the Blob Store.
NoDanglingImageUrl ==
  Quiet => \A id \in DOMAIN products :
             products[id].imageUrl.kind = "blob" => products[id].imageUrl.key \in blobs

\* C27: under any interleaving of product create or update naming category
\* c with category remove of c, relying only on the existence and
\* product-count checks the services perform, every product row's category
\* reference resolves to an existing category in every reachable state.
CategoryReferenceResolves ==
  \A id \in DOMAIN products : products[id].categoryId \in DOMAIN categories

\* C28: for every findAll call, also when products are created or removed
\* concurrently, the returned total and the returned page describe the same
\* store state: total is never smaller than the number of returned products,
\* and a non-empty page is never reported together with totalPages smaller
\* than the requested page.
FindAllTotalCoversPage ==
  \A s \in Listed :
    LET r == calls[s].listing IN
    calls[s].status = "ok"
      => /\ r.total >= Len(r.products)
         /\ Len(r.products) > 0 => r.totalPages >= r.page

\* C29: after remove(id) by the owner returns successfully with every Blob
\* Store operation succeeding, no blob remains stored under that product and
\* owner's folder, whatever create, uploadImage, deleteImage and update calls
\* came before.
RemoveLeavesNoBlob ==
  [][\A s \in Slots :
       (/\ StepAt(s, "remove", "delete")
        /\ calls'[s].status = "ok"
        /\ ~calls[s].caught)
         => {k \in blobs' : k.pid = calls[s].id /\ k.uid = calls[s].userId} = {}]_vars

\* C30: deleteImage and remove on a product delete only blobs stored under
\* that product's own product+owner folder: blobs uploaded for any other
\* product, and every other product's row, are left unchanged.
ImageCleanupStaysInFolder ==
  [][\A s \in Slots :
       (calls[s].op \in {"remove", "deleteImage"} /\ calls'[s] # calls[s])
         => LET id == calls[s].id
                userId == calls[s].userId
            IN
            /\ \A k \in blobs \ blobs' : k.pid = id /\ k.uid = userId
            /\ blobs' \subseteq blobs
            /\ \A other \in DOMAIN products \ {id} :
                 /\ other \in DOMAIN products'
                 /\ products'[other] = products[other]]_vars

\* a product was removed together with its blob while the same owner's other
\* product keeps its blob
ImageCleanupStaysInFolderWitness ==
  \E s \in Slots :
    /\ calls[s].op = "remove" /\ calls[s].pc = "done" /\ calls[s].status = "ok"
    /\ calls[s].id \notin DOMAIN products
    /\ uuids = 2
    /\ \A k \in blobs : k.pid # calls[s].id
    /\ \E other \in DOMAIN products :
         /\ products[other].userId = calls[s].userId
         /\ products[other].imageUrl.kind = "blob"
         /\ products[other].imageUrl.key \in blobs

====
